---- MODULE Spec2Model ----
\* Model of libs/hwui/TessellationCache.cpp: the generic tessellation
\* cache (mCache, Description -> Buffer*), the shadow cache (mShadowCache,
\* ShadowDescription -> Task*), the tasks handed to the worker pool, and
\* the single caller thread that uses the cache.
\*
\* Pointers are modelled by task numbers: the n-th task submitted is n,
\* the Buffer built around a TessellationTask and the mesh the task
\* produces carry the number of that task, and NULL is 0.
\*
\* The caller thread blocks only in Task::getResult(); an operation that
\* can block is split at that point: its call action runs the code up to
\* the wait and its return action runs the rest once the result is there.
EXTENDS Integers, Sequences, FiniteSets, TLC

\* Bounds of the model.
MaxTasks == 2
MaxVertices == 2

\* Program constants.
NULL == 0
DEFAULT_VERTEX_CACHE_BYTES == 1048576

\* Z coordinates are floats, written as integers in units of 2^-34, half
\* the unit of the last place of SHADOW_MIN_CASTER_Z = 0.001f =
\* 8589935 * 2^-33. FLT_MAX stands above every Z of the model.
SHADOW_MIN_CASTER_Z == 17179870
FLT_MAX == 2147483647

\* The inputs of the calls: two descriptions (used as generic and as shadow
\* keys), the budgets handed to setMaxSize, the values "0.5" and "2" of
\* PROPERTY_VERTEX_CACHE_SIZE in tenths of a megabyte, the tessellators
\* handed to getOrCreateBuffer (one of them breaks its contract), and the
\* contents the caller's paint, path, transforms, clip and light parameters
\* can have.
Keys == {1, 2}
Frames == {1, 2}
Budgets == {0, 2}
PropertyValues == {5, 20}
Tessellators == {"tessellateRoundRect", "nullTessellator"}

VARIABLES
    mSize,          \* TessellationCache::mSize
    mMaxSize,       \* TessellationCache::mMaxSize
    mCache,         \* generic cache: Buffers, oldest first
    mShadowCache,   \* shadow cache: [key, task], oldest first
    tasks,          \* every task created so far, by number
    pc,             \* where the caller thread is: [op, arg]
    ret,            \* what the last completed call returned
    lastOp,         \* the last completed call: [name, key]
    fatal,          \* "none", or the LOG_ALWAYS_FATAL message that aborted
    iter,           \* the keys the Iterator of a running getSize() has yet to visit
    frame,          \* what the caller's per-frame memory holds at present
    sh              \* one run of tessellateShadows: its inputs, then its outcome

vars == <<mSize, mMaxSize, mCache, mShadowCache, tasks, pc, ret, lastOp, fatal, iter, frame, sh>>

Idle == [op |-> "idle", arg |-> 0]
NoShadow == [phase |-> "none"]
Running == pc = Idle /\ fatal = "none"

-----------------------------------------------------------------------------
\* utils/LruCache.h as the cache uses it: a sequence, oldest entry first.

IndexOf(cache, k) ==
    IF \E i \in 1..Len(cache) : cache[i].key = k
    THEN CHOOSE i \in 1..Len(cache) : cache[i].key = k
    ELSE 0

RemoveAt(cache, i) == SubSeq(cache, 1, i - 1) \o SubSeq(cache, i + 1, Len(cache))

\* LruCache::get: a hit moves the entry to the youngest end.
LruGet(cache, k) ==
    LET i == IndexOf(cache, k)
    IN  IF i = 0 THEN cache ELSE Append(RemoveAt(cache, i), cache[i])

\* Mutant of LruPut: the entry is added whether or not the key is present.
LruPut_Duplicate(cache, e) == Append(cache, e)

\* Mutant of LruPut: the caches are built with a capacity of one entry in
\* place of kUnlimitedCapacity, so put removes the oldest entry of a full
\* cache first.
LruPut_Capacity(cache, e) ==
    LET room == IF Len(cache) >= 1 THEN Tail(cache) ELSE cache
    IN  IF IndexOf(room, e.key) # 0 THEN room ELSE Append(room, e)

\* LruCache::put (libutils): returns false and leaves the cache alone when
\* the key is present; otherwise the entry becomes the youngest. Neither
\* cache has a capacity, so put itself evicts nothing.
LruPut(cache, e) ==
    IF IndexOf(cache, e.key) # 0 THEN cache ELSE Append(cache, e)

\* LruCache::removeOldest: on an empty cache it removes nothing.
LruRemoveOldest(cache) == IF cache = <<>> THEN cache ELSE Tail(cache)

-----------------------------------------------------------------------------
\* Tasks.

\* What the tessellator of a task returns: tessellateRoundRect allocates a
\* VertexBuffer whose byte size is a function of the description; a
\* tessellator that breaks its contract returns NULL.
MeshSize(k) == k

TessellatorResult(tessellator, k) ==
    IF tessellator = "tessellateRoundRect" THEN MeshSize(k) ELSE NULL

\* new TessellationTask(tessellator, entry, paint): description(description)
\* and paint(*paint) copy the caller's objects into the task. read is what
\* onProcess has read, ranIn what the caller's memory held when it ran.
TessellationTask(tessellator, k) ==
    [kind |-> "tess", key |-> k, tessellator |-> tessellator, st |-> "new",
     result |-> NULL, cacheRef |-> FALSE, freed |-> 0,
     snapshot |-> frame, read |-> NULL, ranIn |-> NULL]

\* new ShadowTask(...); cacheRef is the reference precacheShadows takes with
\* incStrong(NULL).
\* Every member is a copy: drawTransform(*drawTransform),
\* casterPerimeter(*casterPerimeter), ...
ShadowTask(k) ==
    [kind |-> "shadow", key |-> k, tessellator |-> "tessellateShadows", st |-> "new",
     result |-> NULL, cacheRef |-> FALSE, freed |-> 0,
     snapshot |-> frame, read |-> NULL, ranIn |-> NULL]

\* Mutant of TaskInputs: the task keeps the caller's pointers and onProcess
\* reads through them.
TaskInputs_CallerMemory(task) == frame

\* What onProcess reads: t->description and t->paint, or t->drawTransform,
\* t->localClip, ..., all members of the task.
TaskInputs(task) == task.snapshot

\* TaskProcessor::add: the task is queued on the worker pool, which holds a
\* reference to it until it has run.
ProcessorAdd(task) == [task EXCEPT !.st = "queued"]

\* The result of a task is there once the worker has called setResult.
HasResult(t) == tasks[t].st \in {"done", "finished"}

-----------------------------------------------------------------------------
\* TessellationCache::Buffer

\* Buffer(task): mTask(task), mBuffer(NULL)
Buffer(k, t) == [key |-> k, id |-> t, mTask |-> t, mBuffer |-> NULL]

\* Mutant of BlockOnPrecache: the LOG_ALWAYS_FATAL_IF is missing, so a task
\* that resolved with no mesh leaves a materialized Buffer without a mesh.
BlockOnPrecache_NoCheck(e) ==
    IF e.mTask # NULL
    THEN [entry |-> [e EXCEPT !.mBuffer = IF tasks[e.mTask].result = NULL
                                          THEN NULL ELSE e.mTask,
                              !.mTask = NULL],
          fatal |-> "none"]
    ELSE [entry |-> e, fatal |-> "none"]

\* Mutant of BlockOnPrecache: mTask.clear() is missing, a materialized
\* Buffer keeps its task handle.
BlockOnPrecache_KeepTask(e) ==
    IF e.mTask # NULL
    THEN IF tasks[e.mTask].result = NULL
         THEN [entry |-> e, fatal |-> "Failed to precache"]
         ELSE [entry |-> [e EXCEPT !.mBuffer = e.mTask], fatal |-> "none"]
    ELSE [entry |-> e, fatal |-> "none"]

\* Buffer::blockOnPrecache, after getResult() has returned.
BlockOnPrecache(e) ==
    IF e.mTask # NULL
    THEN LET r == tasks[e.mTask].result
         IN  IF r = NULL
             THEN [entry |-> e, fatal |-> "Failed to precache"]
             ELSE [entry |-> [e EXCEPT !.mBuffer = e.mTask, !.mTask = NULL],
                   fatal |-> "none"]
    ELSE [entry |-> e, fatal |-> "none"]

\* blockOnPrecache does not wait: the Buffer has no task, or getResult()
\* of its task returns at once.
ResultReady(e) == IF e.mTask = NULL THEN TRUE ELSE HasResult(e.mTask)

\* mBuffer->getSize() of a materialized Buffer.
BufferSize(e) == tasks[e.mBuffer].result

\* Buffer::~Buffer: the task handle is dropped and mBuffer is deleted; the
\* mesh of a task the Buffer never waited for is not reached from here.
DeleteBuffer(tsk, e) ==
    IF e.mBuffer # NULL THEN [tsk EXCEPT ![e.mBuffer].freed = @ + 1] ELSE tsk

RECURSIVE DeleteBuffers(_, _)
DeleteBuffers(tsk, cache) ==
    IF cache = <<>> THEN tsk
    ELSE DeleteBuffers(DeleteBuffer(tsk, Head(cache)), Tail(cache))

-----------------------------------------------------------------------------
\* Shadow tasks in the shadow cache.

\* BufferPairRemovedListener: decStrong(NULL) on the cached task. When the
\* worker pool has dropped its reference too, ~ShadowTask runs and deletes
\* both meshes and the pair.
DecStrong(tsk, t) ==
    [tsk EXCEPT ![t].cacheRef = FALSE,
                ![t].freed = IF tsk[t].st = "finished" THEN @ + 1 ELSE @]

RECURSIVE ClearShadowCache(_, _)
ClearShadowCache(tsk, cache) ==
    IF cache = <<>> THEN tsk
    ELSE ClearShadowCache(DecStrong(tsk, Head(cache).task), Tail(cache))

-----------------------------------------------------------------------------
\* Tessellation precaching.

\* Mutant of GetOrCreateBuffer: the lookup is skipped, every call creates
\* and submits a task.
GetOrCreateBuffer_AlwaysMiss(k, tessellator) ==
    LET t == Len(tasks) + 1
    IN  [cache |-> LruPut(mCache, Buffer(k, t)),
         tasks |-> Append(tasks, ProcessorAdd(TessellationTask(tessellator, k))),
         buffer |-> t]

\* Mutant of GetOrCreateBuffer: mProcessor->add(task) is missing, the task
\* of a new Buffer is never handed to the worker pool.
GetOrCreateBuffer_NoAdd(k, tessellator) ==
    LET i == IndexOf(mCache, k)
        t == Len(tasks) + 1
    IN  IF i # 0
        THEN [cache |-> LruGet(mCache, k), tasks |-> tasks, buffer |-> mCache[i].id]
        ELSE [cache |-> LruPut(mCache, Buffer(k, t)),
              tasks |-> Append(tasks, TessellationTask(tessellator, k)),
              buffer |-> t]

\* Mutant of GetOrCreateBuffer: the lookup does not count as an access, a
\* hit leaves the entry where it is in the LRU order.
GetOrCreateBuffer_NoPromote(k, tessellator) ==
    LET i == IndexOf(mCache, k)
        t == Len(tasks) + 1
    IN  IF i # 0
        THEN [cache |-> mCache, tasks |-> tasks, buffer |-> mCache[i].id]
        ELSE [cache |-> LruPut(mCache, Buffer(k, t)),
              tasks |-> Append(tasks, ProcessorAdd(TessellationTask(tessellator, k))),
              buffer |-> t]

\* TessellationCache::getOrCreateBuffer: the cache after the call, the
\* tasks after the call and the Buffer returned.
GetOrCreateBuffer(k, tessellator) ==
    LET i == IndexOf(mCache, k)
        t == Len(tasks) + 1
    IN  IF i # 0
        THEN [cache |-> LruGet(mCache, k), tasks |-> tasks, buffer |-> mCache[i].id]
        ELSE [cache |-> LruPut(mCache, Buffer(k, t)),
              tasks |-> Append(tasks, ProcessorAdd(TessellationTask(tessellator, k))),
              buffer |-> t]

\* A call of getOrCreateBuffer that creates a task needs room for it.
CanCreate(cache, k) == IF IndexOf(cache, k) # 0 THEN TRUE ELSE Len(tasks) < MaxTasks

getOrCreateBuffer(k, tessellator) ==
    /\ Running
    /\ CanCreate(mCache, k)
    /\ LET r == GetOrCreateBuffer(k, tessellator)
       IN  /\ mCache' = r.cache
           /\ tasks' = r.tasks
           /\ ret' = r.buffer
    /\ lastOp' = [name |-> "getOrCreateBuffer", key |-> k]
    /\ UNCHANGED <<mSize, mMaxSize, mShadowCache, pc, fatal>>
    /\ UNCHANGED <<iter, frame, sh>>

\* TessellationCache::getRoundRect up to the wait in getVertexBuffer():
\* getRoundRectBuffer builds the key and calls getOrCreateBuffer with
\* tessellateRoundRect.
getRoundRect(k) ==
    /\ Running
    /\ CanCreate(mCache, k)
    /\ LET r == GetOrCreateBuffer(k, "tessellateRoundRect")
       IN  /\ mCache' = r.cache
           /\ tasks' = r.tasks
           /\ pc' = [op |-> "getRoundRect", arg |-> r.buffer]
    /\ UNCHANGED <<mSize, mMaxSize, mShadowCache, ret, lastOp, fatal>>
    /\ UNCHANGED <<iter, frame, sh>>

\* The Buffer a blocked getRoundRect holds.
IndexOfBuffer(cache, b) ==
    IF \E i \in 1..Len(cache) : cache[i].id = b
    THEN CHOOSE i \in 1..Len(cache) : cache[i].id = b
    ELSE 0

\* Buffer::getVertexBuffer: blockOnPrecache, then return mBuffer.
getRoundRectReturn ==
    /\ pc.op = "getRoundRect" /\ fatal = "none"
    /\ LET i == IndexOfBuffer(mCache, pc.arg)
       IN  /\ i # 0
           /\ ResultReady(mCache[i])
           /\ LET b == BlockOnPrecache(mCache[i])
              IN  IF b.fatal # "none"
                  THEN /\ fatal' = b.fatal
                       /\ UNCHANGED <<mCache, pc, ret, lastOp>>
                  ELSE /\ mCache' = [mCache EXCEPT ![i] = b.entry]
                       /\ ret' = b.entry.mBuffer
                       /\ pc' = Idle
                       /\ lastOp' = [name |-> "getRoundRect", key |-> mCache[i].key]
                       /\ UNCHANGED fatal
    /\ UNCHANGED <<mSize, mMaxSize, mShadowCache, tasks>>
    /\ UNCHANGED <<iter, frame, sh>>

-----------------------------------------------------------------------------
\* Size management.

\* The entries that are still pending.
PendingKeys(cache) == {cache[i].key : i \in {j \in 1..Len(cache) : cache[j].mTask # NULL}}

\* LruCache::Iterator walks the hash table of the cache: every entry once,
\* in an order that is neither the LRU order nor the caller's to choose.
IterOrders(cache) ==
    {o \in [1..Len(cache) -> {cache[i].key : i \in 1..Len(cache)}] :
        \A i, j \in 1..Len(cache) : o[i] = o[j] => i = j}

\* The loop of getSize() from the entry the iterator is at:
\* iter.value()->getSize() materializes the entry when its task has
\* resolved (or aborts on a NULL mesh) and waits in getResult() when it has
\* not. The cache as the loop leaves it, and the keys still to visit, the
\* one it stopped at first.
RECURSIVE GetSizeLoop(_, _)
GetSizeLoop(cache, order) ==
    IF order = <<>>
    THEN [cache |-> cache, iter |-> <<>>, fatal |-> "none"]
    ELSE LET i == IndexOf(cache, Head(order))
         IN  IF ~ResultReady(cache[i])
             THEN [cache |-> cache, iter |-> order, fatal |-> "none"]
             ELSE LET b == BlockOnPrecache(cache[i])
                  IN  IF b.fatal # "none"
                      THEN [cache |-> cache, iter |-> order, fatal |-> b.fatal]
                      ELSE GetSizeLoop([cache EXCEPT ![i] = b.entry], Tail(order))

\* The uint32_t sum getSize() returns once every entry is materialized. The
\* sizes of the model are far below 2^32, so the sum does not wrap.
RECURSIVE SumSizes(_)
SumSizes(cache) ==
    IF cache = <<>> THEN 0
    ELSE BufferSize(Head(cache)) + SumSizes(Tail(cache))

\* size > mMaxSize on uint32_t. The model checker's integers end below
\* 2^32: a negative number v stands for the wrapped value 2^32 + v, which
\* is above every budget of the model.
Above(size, maxSize) == size < 0 \/ size > maxSize

\* TessellationCache::getSize and trim up to their first wait.
getSize ==
    /\ Running
    /\ \E order \in IterOrders(mCache) :
          LET r == GetSizeLoop(mCache, order)
          IN  /\ mCache' = r.cache
              /\ iter' = r.iter
              /\ fatal' = r.fatal
    /\ pc' = [op |-> "getSize", arg |-> 0]
    /\ UNCHANGED <<mSize, mMaxSize, mShadowCache, tasks, ret, lastOp>>
    /\ UNCHANGED <<frame, sh>>

trim ==
    /\ Running
    /\ \E order \in IterOrders(mCache) :
          LET r == GetSizeLoop(mCache, order)
          IN  /\ mCache' = r.cache
              /\ iter' = r.iter
              /\ fatal' = r.fatal
    /\ pc' = [op |-> "trim", arg |-> 0]
    /\ UNCHANGED <<mSize, mMaxSize, mShadowCache, tasks, ret, lastOp>>
    /\ UNCHANGED <<frame, sh>>

\* The loop of getSize() goes on when the task it waited for has resolved.
getSizeIterate ==
    /\ pc.op \in {"getSize", "trim"} /\ fatal = "none"
    /\ iter # <<>>
    /\ ResultReady(mCache[IndexOf(mCache, Head(iter))])
    /\ LET r == GetSizeLoop(mCache, iter)
       IN  /\ mCache' = r.cache
           /\ iter' = r.iter
           /\ fatal' = r.fatal
    /\ UNCHANGED <<mSize, mMaxSize, mShadowCache, tasks, pc, ret, lastOp>>
    /\ UNCHANGED <<frame, sh>>

getSizeReturn ==
    /\ pc.op = "getSize" /\ fatal = "none"
    /\ iter = <<>>
    /\ ret' = SumSizes(mCache)
    /\ pc' = Idle
    /\ lastOp' = [name |-> "getSize", key |-> 0]
    /\ UNCHANGED <<mSize, mMaxSize, mCache, mShadowCache, tasks, fatal>>
    /\ UNCHANGED <<iter, frame, sh>>

\* TessellationCache::getMaxSize
getMaxSize ==
    /\ Running
    /\ ret' = mMaxSize
    /\ lastOp' = [name |-> "getMaxSize", key |-> 0]
    /\ UNCHANGED <<mSize, mMaxSize, mCache, mShadowCache, tasks, pc, fatal>>
    /\ UNCHANGED <<iter, frame, sh>>

\* The loop of setMaxSize: while (mSize > mMaxSize) mCache.removeOldest().
\* Nothing in the loop changes mSize, so a loop that is entered never ends.
SetMaxSizeLoop(cache, tsk, maxSize) ==
    IF Above(mSize, maxSize)
    THEN [cache |-> <<>>, tasks |-> DeleteBuffers(tsk, cache), spins |-> TRUE]
    ELSE [cache |-> cache, tasks |-> tsk, spins |-> FALSE]

\* TessellationCache::setMaxSize
setMaxSize(maxSize) ==
    /\ Running
    /\ mMaxSize' = maxSize
    /\ LET r == SetMaxSizeLoop(mCache, tasks, maxSize)
       IN  /\ mCache' = r.cache
           /\ tasks' = r.tasks
           /\ pc' = IF r.spins THEN [op |-> "setMaxSize", arg |-> 0] ELSE Idle
    /\ ret' = NULL
    /\ lastOp' = [name |-> "setMaxSize", key |-> 0]
    /\ UNCHANGED <<mSize, mShadowCache, fatal>>
    /\ UNCHANGED <<iter, frame, sh>>

\* Mutant of TrimLoop: an if in place of the while, at most one eviction.
TrimLoop_Once(cache, size, tsk) ==
    IF Above(size, mMaxSize) /\ cache # <<>>
    THEN [cache |-> LruRemoveOldest(cache), tasks |-> DeleteBuffer(tsk, Head(cache)),
          crashed |-> FALSE]
    ELSE [cache |-> cache, tasks |-> tsk, crashed |-> FALSE]

\* Mutant of TrimLoop: the loop runs while size >= mMaxSize.
RECURSIVE TrimLoop_AtBudget(_, _, _)
TrimLoop_AtBudget(cache, size, tsk) ==
    IF (size < 0 \/ size >= mMaxSize) /\ cache # <<>>
    THEN TrimLoop_AtBudget(LruRemoveOldest(cache), size - BufferSize(Head(cache)),
                           DeleteBuffer(tsk, Head(cache)))
    ELSE [cache |-> cache, tasks |-> tsk, crashed |-> FALSE]

\* Mutant of TrimLoop: the running size is not reduced by the size of the
\* entry removed.
RECURSIVE TrimLoop_NoSubtract(_, _, _)
TrimLoop_NoSubtract(cache, size, tsk) ==
    IF Above(size, mMaxSize)
    THEN IF cache = <<>>
         THEN [cache |-> cache, tasks |-> tsk, crashed |-> TRUE]
         ELSE TrimLoop_NoSubtract(LruRemoveOldest(cache), size,
                                  DeleteBuffer(tsk, Head(cache)))
    ELSE [cache |-> cache, tasks |-> tsk, crashed |-> FALSE]

\* The loop of trim: while (size > mMaxSize) { size -= oldest size;
\* removeOldest }. peekOldestValue() of an empty cache is NULL.
RECURSIVE TrimLoop(_, _, _)
TrimLoop(cache, size, tsk) ==
    IF Above(size, mMaxSize)
    THEN IF cache = <<>>
         THEN [cache |-> cache, tasks |-> tsk, crashed |-> TRUE]
         ELSE TrimLoop(LruRemoveOldest(cache),
                       size - BufferSize(Head(cache)),
                       DeleteBuffer(tsk, Head(cache)))
    ELSE [cache |-> cache, tasks |-> tsk, crashed |-> FALSE]

\* Mutant of trimReturn: the shadow cache is cleared only when the loop
\* evicted something.
trimReturn_ShadowOnlyOnEvict ==
    /\ pc.op = "trim" /\ fatal = "none"
    /\ iter = <<>>
    /\ LET r == TrimLoop(mCache, SumSizes(mCache), tasks)
           evicted == r.cache # mCache
       IN  /\ ~r.crashed
           /\ mCache' = r.cache
           /\ tasks' = IF evicted THEN ClearShadowCache(r.tasks, mShadowCache) ELSE r.tasks
           /\ mShadowCache' = IF evicted THEN <<>> ELSE mShadowCache
           /\ pc' = Idle
           /\ ret' = NULL
           /\ lastOp' = [name |-> "trim", key |-> 0]
    /\ UNCHANGED <<mSize, mMaxSize, fatal>>
    /\ UNCHANGED <<iter, frame, sh>>

\* The cache and the running size at every test of the loop of trim.
RECURSIVE TrimLoopStates(_, _)
TrimLoopStates(cache, size) ==
    <<[cache |-> cache, size |-> size]>> \o
    (IF Above(size, mMaxSize) /\ cache # <<>>
     THEN TrimLoopStates(LruRemoveOldest(cache), size - BufferSize(Head(cache)))
     ELSE <<>>)

\* TessellationCache::trim after getSize() has returned.
trimReturn ==
    /\ pc.op = "trim" /\ fatal = "none"
    /\ iter = <<>>
    /\ LET r == TrimLoop(mCache, SumSizes(mCache), tasks)
       IN  IF r.crashed
           THEN /\ fatal' = "null dereference"
                /\ UNCHANGED <<mCache, mShadowCache, tasks, pc, ret, lastOp>>
           ELSE /\ mCache' = r.cache
                /\ tasks' = ClearShadowCache(r.tasks, mShadowCache)
                /\ mShadowCache' = <<>>
                /\ pc' = Idle
                /\ ret' = NULL
                /\ lastOp' = [name |-> "trim", key |-> 0]
                /\ UNCHANGED fatal
    /\ UNCHANGED <<mSize, mMaxSize>>
    /\ UNCHANGED <<iter, frame, sh>>

\* Mutant of clear: only mCache is cleared, as in ~TessellationCache.
clear_GenericOnly ==
    /\ Running
    /\ mCache' = <<>>
    /\ tasks' = DeleteBuffers(tasks, mCache)
    /\ ret' = NULL
    /\ lastOp' = [name |-> "clear", key |-> 0]
    /\ UNCHANGED <<mSize, mMaxSize, mShadowCache, pc, fatal>>
    /\ UNCHANGED <<iter, frame, sh>>

\* TessellationCache::clear
clear ==
    /\ Running
    /\ mCache' = <<>>
    /\ mShadowCache' = <<>>
    /\ tasks' = ClearShadowCache(DeleteBuffers(tasks, mCache), mShadowCache)
    /\ ret' = NULL
    /\ lastOp' = [name |-> "clear", key |-> 0]
    /\ UNCHANGED <<mSize, mMaxSize, pc, fatal>>
    /\ UNCHANGED <<iter, frame, sh>>

\* TessellationCache::~TessellationCache: mCache.clear() and nothing else.
\* The shadow cache goes without its listener being run, so the references
\* it took with incStrong stay.
destructor ==
    /\ Running
    /\ mCache' = <<>>
    /\ tasks' = DeleteBuffers(tasks, mCache)
    /\ pc' = [op |-> "destroyed", arg |-> 0]
    /\ ret' = NULL
    /\ lastOp' = [name |-> "~TessellationCache", key |-> 0]
    /\ UNCHANGED <<mSize, mMaxSize, mShadowCache, fatal>>
    /\ UNCHANGED <<iter, frame, sh>>

-----------------------------------------------------------------------------
\* Shadows.

\* Mutant of PrecacheShadows: mShadowCache.put(key, task) is missing.
PrecacheShadows_NoPut(k) ==
    LET task == [ProcessorAdd(ShadowTask(k)) EXCEPT !.cacheRef = TRUE]
    IN  [cache |-> mShadowCache, tasks |-> Append(tasks, task)]

\* TessellationCache::precacheShadows: the shadow cache and the tasks after
\* the call.
PrecacheShadows(k) ==
    LET task == [ProcessorAdd(ShadowTask(k)) EXCEPT !.cacheRef = TRUE]
    IN  [cache |-> LruPut(mShadowCache, [key |-> k, task |-> Len(tasks) + 1]),
         tasks |-> Append(tasks, task)]

precacheShadows(k) ==
    /\ Running
    /\ Len(tasks) < MaxTasks
    /\ LET r == PrecacheShadows(k)
       IN  /\ mShadowCache' = r.cache
           /\ tasks' = r.tasks
    /\ ret' = NULL
    /\ lastOp' = [name |-> "precacheShadows", key |-> k]
    /\ UNCHANGED <<mSize, mMaxSize, mCache, pc, fatal>>
    /\ UNCHANGED <<iter, frame, sh>>

\* TessellationCache::getShadowBuffers up to the wait in task->getResult().
getShadowBuffers(k) ==
    /\ Running
    /\ CanCreate(mShadowCache, k)
    /\ LET hit == IndexOf(mShadowCache, k) # 0
           r == IF hit THEN [cache |-> mShadowCache, tasks |-> tasks]
                ELSE PrecacheShadows(k)
           i == IndexOf(r.cache, k)
       IN  /\ mShadowCache' = LruGet(r.cache, k)
           /\ tasks' = r.tasks
           /\ IF i = 0
              THEN fatal' = "shadow not precached" /\ UNCHANGED pc
              ELSE pc' = [op |-> "getShadowBuffers", arg |-> r.cache[i].task]
                   /\ UNCHANGED fatal
    /\ UNCHANGED <<mSize, mMaxSize, mCache, ret, lastOp>>
    /\ UNCHANGED <<iter, frame, sh>>

\* outBuffers = *(task->getResult())
getShadowBuffersReturn ==
    /\ pc.op = "getShadowBuffers" /\ fatal = "none"
    /\ HasResult(pc.arg)
    /\ ret' = IF tasks[pc.arg].result # NULL THEN pc.arg ELSE NULL
    /\ pc' = Idle
    /\ lastOp' = [name |-> "getShadowBuffers", key |-> tasks[pc.arg].key]
    /\ UNCHANGED <<mSize, mMaxSize, mCache, mShadowCache, tasks, fatal>>
    /\ UNCHANGED <<iter, frame, sh>>

-----------------------------------------------------------------------------
\* The worker pool.

\* What onProcess hands to setResult: TessellationProcessor the mesh of the
\* tessellator, ShadowProcessor a new pair of two new VertexBuffers.
ProcessResult(task) ==
    IF task.kind = "tess" THEN TessellatorResult(task.tessellator, task.key) ELSE 1

\* A worker thread runs a queued task: onProcess, setResult. The worker
\* still holds its reference to the task when the result is there.
WorkerProcess(t) ==
    /\ fatal = "none"
    /\ tasks[t].st = "queued"
    /\ tasks' = [tasks EXCEPT ![t].st = "done",
                              ![t].result = ProcessResult(tasks[t]),
                              ![t].read = TaskInputs(tasks[t]),
                              ![t].ranIn = frame]
    /\ UNCHANGED <<mSize, mMaxSize, mCache, mShadowCache, pc, ret, lastOp, fatal>>
    /\ UNCHANGED <<iter, frame, sh>>

\* The worker thread drops its reference to the task it has run; a shadow
\* task nothing else references is destroyed here with its meshes. A
\* TessellationTask owns no mesh: nothing is released with it.
WorkerRelease(t) ==
    /\ fatal = "none"
    /\ tasks[t].st = "done"
    /\ tasks' = [tasks EXCEPT ![t].st = "finished",
                              ![t].freed = IF tasks[t].kind = "shadow" /\ ~tasks[t].cacheRef
                                           THEN @ + 1 ELSE @]
    /\ UNCHANGED <<mSize, mMaxSize, mCache, mShadowCache, pc, ret, lastOp, fatal>>
    /\ UNCHANGED <<iter, frame, sh>>

-----------------------------------------------------------------------------
\* MB(atof(property)) as the uint32_t setMaxSize takes: the product of the
\* property's value and 1024 * 1024, truncated to an integer.
MBatof(tenths) == (tenths * 1024 * 1024) \div 10

\* The state after construction with the property unset.
DefaultInit ==
    /\ mSize = 0
    /\ mCache = <<>>
    /\ mShadowCache = <<>>
    /\ tasks = <<>>
    /\ pc = Idle
    /\ ret = NULL
    /\ lastOp = [name |-> "TessellationCache", key |-> 0]
    /\ fatal = "none"
    /\ iter = <<>>
    /\ frame = 1
    /\ sh = NoShadow
    /\ mMaxSize = DEFAULT_VERTEX_CACHE_BYTES

\* TessellationCache::TessellationCache: the default budget, or
\* setMaxSize(MB(atof(property))) when the property is set; mSize is 0, so
\* the loop of that setMaxSize does not run.
Init ==
    /\ mSize = 0
    /\ mMaxSize \in {DEFAULT_VERTEX_CACHE_BYTES} \cup
                     {MBatof(property) : property \in PropertyValues}
    /\ mCache = <<>>
    /\ mShadowCache = <<>>
    /\ tasks = <<>>
    /\ pc = Idle
    /\ ret = NULL
    /\ lastOp = [name |-> "TessellationCache", key |-> 0]
    /\ fatal = "none"
    /\ iter = <<>>
    /\ frame = 1
    /\ sh = NoShadow

Caller ==
    \/ \E k \in Keys : \E tessellator \in Tessellators : getOrCreateBuffer(k, tessellator)
    \/ \E k \in Keys : getRoundRect(k)
    \/ getRoundRectReturn
    \/ getSize
    \/ getSizeIterate
    \/ getSizeReturn
    \/ getMaxSize
    \/ \E n \in Budgets : setMaxSize(n)
    \/ trim
    \/ trimReturn
    \/ clear
    \/ \E k \in Keys : precacheShadows(k)
    \/ \E k \in Keys : getShadowBuffers(k)
    \/ getShadowBuffersReturn
    \/ destructor

Worker == \E t \in 1..Len(tasks) : WorkerProcess(t) \/ WorkerRelease(t)

Next == Caller \/ Worker

Spec == Init /\ [][Next]_vars

\* The worker pool runs every task handed to it, and the caller thread
\* goes on as soon as the result it waits for is there.
Return ==
    \/ getRoundRectReturn
    \/ getSizeIterate
    \/ getSizeReturn
    \/ trimReturn
    \/ getShadowBuffersReturn

\* The calls that submit a task, wait for one or release one, and the
\* worker pool, on a cache built with the property unset.
FairNext ==
    \/ \E k \in Keys : \E tessellator \in Tessellators : getOrCreateBuffer(k, tessellator)
    \/ \E k \in Keys : getRoundRect(k)
    \/ getRoundRectReturn
    \/ getSize
    \/ getSizeIterate
    \/ getSizeReturn
    \/ trim
    \/ trimReturn
    \/ clear
    \/ \E k \in Keys : precacheShadows(k)
    \/ \E k \in Keys : getShadowBuffers(k)
    \/ getShadowBuffersReturn
    \/ Worker

FairSpec == DefaultInit /\ [][FairNext]_vars /\ WF_vars(Worker) /\ WF_vars(Return)

\* The caller's single-frame allocator is destroyed between two calls and
\* its memory is used again: the paint, path and matrices the caller handed
\* to earlier calls now hold something else.
FrameTeardown ==
    /\ Running
    /\ \E f \in Frames : f # frame /\ frame' = f
    /\ UNCHANGED <<mSize, mMaxSize, mCache, mShadowCache, tasks, pc, ret, lastOp, fatal, iter, sh>>

\* The cache used across frames: tasks are submitted, the frame's memory
\* goes, the worker pool runs the tasks, trim() waits for them.
ArenaNext ==
    \/ \E k \in Keys : \E tessellator \in Tessellators : getOrCreateBuffer(k, tessellator)
    \/ \E k \in Keys : precacheShadows(k)
    \/ FrameTeardown
    \/ trim
    \/ getSizeIterate
    \/ trimReturn
    \/ Worker

ArenaSpec == DefaultInit /\ [][ArenaNext]_vars

-----------------------------------------------------------------------------
\* Shadow tessellation: tessellateShadows and ShadowProcessor::onProcess.

\* The inputs of one run. A vertex of the flattened outline is [x, y]; the
\* Z transform is any function of the vertex: -0.03125, -2^-34, 0, 2^-34,
\* 0.001f or 0.03125, each of them a float.
Xs == {0, 1}
Zs == {-536870912, -1, 0, 1, 17179870, 536870912}
Vertices2d == [x : Xs, y : {0}]
VertexCounts == {0, 3}

\* float: a value of magnitude in [2^k, 2^(k+1)) has 24 significant bits, so
\* floats there lie Ulp = 2^(k-23) apart; below 2^24 units (2^-10) every
\* integer is a float.
RECURSIVE Ulp(_)
Ulp(a) == IF a < 16777216 THEN 1 ELSE 2 * Ulp(a \div 2)

Abs(v) == IF v < 0 THEN -v ELSE v

\* The float nearest to v, ties to the even one: the result of one float
\* operation whose exact result is v.
RoundF(v) ==
    LET a == Abs(v)
        q == Ulp(a)
        lo == (a \div q) * q
        r == a - lo
        up == IF 2 * r < q THEN lo
              ELSE IF 2 * r > q THEN lo + q
              ELSE IF (lo \div q) % 2 = 0 THEN lo ELSE lo + q
    IN  IF v < 0 THEN -up ELSE up

fmin(a, b) == IF b < a THEN b ELSE a
fmax(a, b) == IF b > a THEN b ELSE a

Reverse(seq) == [i \in 1..Len(seq) |-> seq[Len(seq) + 1 - i]]

\* new VertexBuffer: no vertices.
VertexBuffer == [vertexCount |-> 0]

\* mapPointFakeZ: z from the true 3d matrix applied to the point as it
\* comes in, then x and y from the draw matrix (a translation in x here).
mapPointFakeZ(point, transformXY, transformZ) ==
    [x |-> point.x + transformXY, y |-> point.y, z |-> transformZ[point]]

\* minZ and maxZ after the first n iterations of the mapping loop.
RECURSIVE MinZ(_, _)
MinZ(casterPolygon, n) ==
    IF n = 0 THEN FLT_MAX ELSE fmin(MinZ(casterPolygon, n - 1), casterPolygon[n].z)

RECURSIVE MaxZ(_, _)
MaxZ(casterPolygon, n) ==
    IF n = 0 THEN -FLT_MAX ELSE fmax(MaxZ(casterPolygon, n - 1), casterPolygon[n].z)

\* Mutant of LiftCaster: the centroid is not lifted.
LiftCaster_PolygonOnly(casterPolygon, centroid3d, minZ) ==
    IF minZ < SHADOW_MIN_CASTER_Z
    THEN LET casterLift == RoundF(SHADOW_MIN_CASTER_Z - minZ)
         IN  [casterPolygon |-> [i \in 1..Len(casterPolygon) |->
                                   [casterPolygon[i] EXCEPT !.z = RoundF(@ + casterLift)]],
              centroid3d |-> centroid3d,
              lifted |-> TRUE]
    ELSE [casterPolygon |-> casterPolygon, centroid3d |-> centroid3d, lifted |-> FALSE]

\* if (minZ < SHADOW_MIN_CASTER_Z) { casterLift = SHADOW_MIN_CASTER_Z - minZ;
\* casterPolygon[i].z += casterLift; centroid3d.z += casterLift; }, each
\* operation a float operation.
LiftCaster(casterPolygon, centroid3d, minZ) ==
    IF minZ < SHADOW_MIN_CASTER_Z
    THEN LET casterLift == RoundF(SHADOW_MIN_CASTER_Z - minZ)
         IN  [casterPolygon |-> [i \in 1..Len(casterPolygon) |->
                                   [casterPolygon[i] EXCEPT !.z = RoundF(@ + casterLift)]],
              centroid3d |-> [centroid3d EXCEPT !.z = RoundF(@ + casterLift)],
              lifted |-> TRUE]
    ELSE [casterPolygon |-> casterPolygon, centroid3d |-> centroid3d, lifted |-> FALSE]

\* The outline as tessellateShadows uses it: reversed when the path is not
\* clockwise.
CasterVertices2d(in) ==
    IF in.clockwise THEN in.casterVertices2d ELSE Reverse(in.casterVertices2d)

\* tessellateShadows from "map 2d caster poly into 3d" to its end: what it
\* did, what it handed to the two tessellators, and the two buffers as the
\* tessellators left them (ambientOut and spotOut vertices).
TessellateCaster(in, ambientOut, spotOut) ==
    LET casterVertices2d == CasterVertices2d(in)
        casterVertexCount == Len(casterVertices2d)
        mapped == [i \in 1..casterVertexCount |->
                     mapPointFakeZ(casterVertices2d[i], in.transformXY, in.transformZ)]
        minZ == MinZ(mapped, casterVertexCount)
        maxZ == MaxZ(mapped, casterVertexCount)
        centroid == mapPointFakeZ(in.centroid, in.transformXY, in.transformZ)
        l == LiftCaster(mapped, centroid, minZ)
    IN  [steps |-> <<"approximatePathOutlineVertices", "isClockwisePath", "mapPointFakeZ",
                     "centroid2d", "mapPointFakeZ(centroid3d)">>
                   \o (IF l.lifted THEN <<"casterLift">> ELSE <<>>)
                   \o <<"mapRect", "tessellateAmbientShadow", "tessellateSpotShadow">>,
         mapped |-> mapped,
         centroid |-> centroid,
         minZ |-> minZ,
         lifted |-> l.lifted,
         ambient |-> [casterPolygon |-> l.casterPolygon,
                      casterVertexCount |-> casterVertexCount,
                      centroid3d |-> l.centroid3d,
                      maxZ |-> maxZ],
         spot |-> [casterPolygon |-> l.casterPolygon,
                   casterVertexCount |-> casterVertexCount],
         ambientBuffer |-> [vertexCount |-> ambientOut],
         spotBuffer |-> [vertexCount |-> spotOut]]

\* Mutant of TessellateShadows: the test of casterVertices2d.size() is
\* missing.
TessellateShadows_NoSizeTest(in, ambientBuffer, spotBuffer, ambientOut, spotOut) ==
    TessellateCaster(in, ambientOut, spotOut)

\* tessellateShadows: if (casterVertices2d.size() == 0) return; leaves the
\* two buffers as the caller made them.
TessellateShadows(in, ambientBuffer, spotBuffer, ambientOut, spotOut) ==
    IF Len(CasterVertices2d(in)) = 0
    THEN [steps |-> <<"approximatePathOutlineVertices", "isClockwisePath">>,
          ambientBuffer |-> ambientBuffer,
          spotBuffer |-> spotBuffer]
    ELSE TessellateCaster(in, ambientOut, spotOut)

\* ShadowProcessor::onProcess: two new VertexBuffers, tessellateShadows,
\* setResult(new vertexBuffer_pair_t(ambientBuffer, spotBuffer)).
onProcess ==
    /\ sh.phase = "task"
    /\ \E ambientOut \in VertexCounts, spotOut \in VertexCounts :
          LET out == TessellateShadows(sh.in, VertexBuffer, VertexBuffer, ambientOut, spotOut)
          IN  sh' = [phase |-> "result",
                     in |-> sh.in,
                     out |-> out,
                     result |-> [first |-> out.ambientBuffer, second |-> out.spotBuffer]]
    /\ UNCHANGED <<mSize, mMaxSize, mCache, mShadowCache, tasks, pc, ret, lastOp, fatal, iter, frame>>

\* The sequences over S of length at most n.
RECURSIVE SeqsUpTo(_, _)
SeqsUpTo(S, n) ==
    IF n = 0 THEN {<<>>}
    ELSE LET shorter == SeqsUpTo(S, n - 1)
         IN  shorter \cup {Append(q, e) : q \in {p \in shorter : Len(p) = n - 1}, e \in S}

\* A ShadowTask as the worker finds it.
ShadowInputs ==
    [casterVertices2d : SeqsUpTo(Vertices2d, MaxVertices),
     clockwise : BOOLEAN,
     centroid : Vertices2d,
     transformXY : Xs,
     transformZ : [Vertices2d -> Zs]]

ShadowInit ==
    /\ mSize = 0
    /\ mMaxSize = DEFAULT_VERTEX_CACHE_BYTES
    /\ mCache = <<>>
    /\ mShadowCache = <<>>
    /\ tasks = <<>>
    /\ pc = Idle
    /\ ret = NULL
    /\ lastOp = [name |-> "TessellationCache", key |-> 0]
    /\ fatal = "none"
    /\ iter = <<>>
    /\ frame = 1
    /\ sh \in [phase : {"task"}, in : ShadowInputs]

ShadowNext == onProcess

ShadowSpec == ShadowInit /\ [][ShadowNext]_vars

-----------------------------------------------------------------------------
\* Properties.

TessTasks == {t \in 1..Len(tasks) : tasks[t].kind = "tess"}
ShadowTasks == {t \in 1..Len(tasks) : tasks[t].kind = "shadow"}
Entry(cache, k) == cache[IndexOf(cache, k)]

\* C1: while a key's entry stays in the generic cache, the only tessellation
\* task submitted for that key is the one the entry was created with, however
\* many requests follow and whether or not the task has resolved; every
\* getOrCreateBuffer returns, and every getRoundRect reads, that one entry.
C1_SingleTaskPerCachedKey ==
    /\ \A i \in 1..Len(mCache) : \A t \in TessTasks :
          tasks[t].key = mCache[i].key => t <= mCache[i].id
    /\ lastOp.name = "getOrCreateBuffer" =>
          /\ IndexOf(mCache, lastOp.key) # 0
          /\ Entry(mCache, lastOp.key).id = ret
    /\ pc.op = "getRoundRect" =>
          /\ IndexOfBuffer(mCache, pc.arg) # 0
          /\ tasks[pc.arg].key = mCache[IndexOfBuffer(mCache, pc.arg)].key
    /\ (lastOp.name = "getRoundRect" /\ pc = Idle) =>
          /\ IndexOf(mCache, lastOp.key) # 0
          /\ Entry(mCache, lastOp.key).mBuffer = ret

\* A request hit an entry that is still pending: the Buffer returned is older
\* than a task submitted before the request.
C1_Witness ==
    /\ lastOp.name = "getOrCreateBuffer" /\ pc = Idle
    /\ IndexOf(mCache, lastOp.key) # 0
    /\ Entry(mCache, lastOp.key).mTask # NULL
    /\ ret < Len(tasks)

\* C2: after trim() returns, the realized sizes of the entries left in the
\* generic cache sum to at most mMaxSize.
C2_TrimWithinBudget ==
    (lastOp.name = "trim" /\ pc = Idle) =>
        /\ PendingKeys(mCache) = {}
        /\ SumSizes(mCache) <= mMaxSize

\* trim() evicted the oldest entry and kept a younger one: the mesh of a
\* later task is released while an entry created before it is still cached.
C2_Witness ==
    /\ lastOp.name = "trim" /\ pc = Idle
    /\ \E i \in 1..Len(mCache) : \E t \in TessTasks :
          t > mCache[i].id /\ tasks[t].freed = 1

\* C3: after setMaxSize(n) returns, the realized sizes of the entries of the
\* generic cache sum to at most n.
C3_SetMaxSizeEvicts ==
    (lastOp.name = "setMaxSize" /\ pc = Idle /\ PendingKeys(mCache) = {}) =>
        SumSizes(mCache) <= mMaxSize

\* Task t is the task of an entry of one of the caches.
InCache(t) ==
    \/ \E i \in 1..Len(mCache) : mCache[i].id = t
    \/ \E i \in 1..Len(mShadowCache) : mShadowCache[i].task = t

\* C4: a mesh is never released twice, and once the worker pool is done with
\* a task that produced a mesh and no cache holds its entry, the mesh has
\* been released.
C4_ReleasedExactlyOnce ==
    \A t \in 1..Len(tasks) :
        /\ tasks[t].freed <= 1
        /\ (tasks[t].st = "finished" /\ tasks[t].result # NULL /\ ~InCache(t) /\ pc = Idle)
              => tasks[t].freed = 1

\* C5: after precacheShadows returns, the task just submitted is the entry
\* of its key in the shadow cache.
C5_LatestTaskReachable ==
    (lastOp.name = "precacheShadows" /\ pc = Idle) =>
        /\ IndexOf(mShadowCache, lastOp.key) # 0
        /\ Entry(mShadowCache, lastOp.key).task = Len(tasks)

\* C6: getShadowBuffers never ends in "shadow not precached"; the task it
\* waits on is the entry of its key, and the pair it returns is the non-null
\* result of a shadow task that has run.
C6_ShadowBuffersMaterialized ==
    /\ fatal # "shadow not precached"
    /\ pc.op = "getShadowBuffers" =>
          /\ IndexOf(mShadowCache, tasks[pc.arg].key) # 0
          /\ Entry(mShadowCache, tasks[pc.arg].key).task = pc.arg
          /\ tasks[pc.arg].st # "new"
    /\ lastOp.name = "getShadowBuffers" =>
          /\ ret # NULL
          /\ ret \in ShadowTasks
          /\ tasks[ret].key = lastOp.key
          /\ HasResult(ret)
          /\ tasks[ret].result # NULL

\* getShadowBuffers was called right after trim() or clear() had emptied the
\* shadow cache: it submitted the task it now waits on, and the task has run.
C6_Witness ==
    /\ pc.op = "getShadowBuffers"
    /\ lastOp.name \in {"trim", "clear", "TessellationCache"}
    /\ HasResult(pc.arg)

\* C7: after trim() returns the shadow cache is empty.
C7_TrimEmptiesShadowCache ==
    (lastOp.name = "trim" /\ pc = Idle) => mShadowCache = <<>>

\* trim() returned without evicting from a non-empty generic cache, and took
\* a shadow task that has not resolved out of the shadow cache.
C7_Witness ==
    /\ lastOp.name = "trim" /\ pc = Idle
    /\ mCache # <<>>
    /\ \A t \in TessTasks : tasks[t].freed = 0
    /\ \E t \in ShadowTasks : tasks[t].st = "queued" /\ ~tasks[t].cacheRef

\* C8: after clear() both caches are empty, and a getSize() that follows
\* returns 0.
C8_ClearEmptiesBoth ==
    [][/\ (lastOp'.name = "clear" /\ pc' = Idle) =>
              (mCache' = <<>> /\ mShadowCache' = <<>>)
       /\ (lastOp.name = "clear" /\ getSizeReturn) => ret' = 0]_vars

\* getSize() runs right after a clear() that dropped a pending generic entry
\* and a pending shadow task.
C8_Witness ==
    /\ lastOp.name = "clear"
    /\ pc.op = "getSize"
    /\ \E t \in TessTasks : tasks[t].st = "queued"
    /\ \E t \in ShadowTasks : tasks[t].st = "queued" /\ ~tasks[t].cacheRef

\* The task the caller thread is blocked on, NULL when it is not blocked.
WaitsOn ==
    IF fatal # "none" THEN NULL
    ELSE IF pc.op = "getRoundRect"
    THEN LET i == IndexOfBuffer(mCache, pc.arg)
         IN  IF i # 0 /\ ~ResultReady(mCache[i]) THEN mCache[i].mTask ELSE NULL
    ELSE IF pc.op \in {"getSize", "trim"}
    THEN IF iter # <<>> /\ ~ResultReady(mCache[IndexOf(mCache, Head(iter))])
         THEN mCache[IndexOf(mCache, Head(iter))].mTask ELSE NULL
    ELSE IF pc.op = "getShadowBuffers"
    THEN IF HasResult(pc.arg) THEN NULL ELSE pc.arg
    ELSE NULL

\* C9: the task the caller waits on is always one the worker pool still has
\* to run, a shadow task is destroyed only after its result is there, and,
\* the pool running every task, every call that blocks comes to its end (it
\* returns, or stops in a fatal check after the wait).
C9_NoDeadlock ==
    /\ [](WaitsOn # NULL => tasks[WaitsOn].st = "queued")
    /\ [](\A t \in ShadowTasks : tasks[t].freed > 0 => HasResult(t))
    /\ (pc # Idle) ~> (pc = Idle \/ fatal # "none")

\* The caller is blocked in trim() on a task that has not run.
C9_Witness ==
    /\ pc.op = "trim"
    /\ WaitsOn # NULL

\* The access to Buffer i that the step makes: getVertexBuffer() of
\* getRoundRect, or getSize() of the entry in the loop of getSize(), which
\* has reached every entry but those after the one it stopped at.
Accesses(i) ==
    \/ getRoundRectReturn /\ IndexOfBuffer(mCache, pc.arg) = i
    \/ /\ getSize \/ trim \/ getSizeIterate
       /\ \A n \in 2..Len(iter') : iter'[n] # mCache[i].key

\* C10: the first access to an entry whose task resolved with no mesh ends
\* in the fatal "Failed to precache", with the entry still pending and
\* nothing returned; no materialized entry is without a mesh and
\* getRoundRect returns no null mesh.
C10_NullResultIsFatal ==
    [][/\ \A i \in 1..Len(mCache) :
             (/\ mCache[i].mTask # NULL
              /\ HasResult(mCache[i].mTask)
              /\ tasks[mCache[i].mTask].result = NULL
              /\ Accesses(i))
             => (/\ fatal' = "Failed to precache"
                 /\ mCache'[i].mTask # NULL
                 /\ ret' = ret /\ lastOp' = lastOp)
       /\ \A i \in 1..Len(mCache') :
             mCache'[i].mTask = NULL =>
                (mCache'[i].mBuffer # NULL /\ tasks'[mCache'[i].mBuffer].result # NULL)
       /\ (lastOp'.name = "getRoundRect" /\ pc' = Idle) => ret' # NULL]_vars

\* An access found that the task of its entry had resolved with no mesh.
C10_Witness ==
    /\ fatal = "Failed to precache"
    /\ \E i \in 1..Len(mCache) :
          mCache[i].mTask # NULL /\ tasks[mCache[i].mTask].result = NULL

\* C11: trim() is idempotent on the generic cache: a trim() that finds the
\* realized sizes at or below mMaxSize removes no entry of the generic
\* cache, and a trim() directly after a trim() leaves the generic cache as
\* the first one left it.
C11_TrimIdempotent ==
    [][trimReturn =>
          ((SumSizes(mCache) <= mMaxSize \/ lastOp.name = "trim") => mCache' = mCache)]_vars

\* A second trim() is running directly after a first one, on a generic
\* cache the first one left non-empty and exactly at the budget.
C11_Witness ==
    /\ pc.op = "trim" /\ lastOp.name = "trim" /\ fatal = "none"
    /\ mCache # <<>>
    /\ iter = <<>>
    /\ SumSizes(mCache) = mMaxSize

\* C12: in every reachable state each of the two caches holds at most one
\* entry per key.
C12_OneEntryPerKey ==
    /\ \A i, j \in 1..Len(mCache) : mCache[i].key = mCache[j].key => i = j
    /\ \A i, j \in 1..Len(mShadowCache) :
          mShadowCache[i].key = mShadowCache[j].key => i = j

\* precacheShadows ran twice for one key with no trim() or clear() between:
\* two shadow tasks of that key hold their cache reference, the shadow cache
\* has the key.
C12_Witness ==
    /\ lastOp.name = "precacheShadows" /\ pc = Idle
    /\ IndexOf(mShadowCache, lastOp.key) # 0
    /\ \E t, u \in ShadowTasks :
          /\ t # u
          /\ tasks[t].key = lastOp.key /\ tasks[u].key = lastOp.key
          /\ tasks[t].cacheRef /\ tasks[u].cacheRef

\* C13: a generic cache entry moves Pending -> Ready once and never back.
\* Outside the accessor it holds exactly one of {mTask, mBuffer}; it becomes
\* Ready only in an accessor step taken when its task has resolved, and then
\* holds the mesh of that task; a Ready entry that stays in the cache stays
\* as it is, and getVertexBuffer on it returns its mesh.
C13_PendingToReadyOnce ==
    [][/\ \A j \in 1..Len(mCache') :
             (mCache'[j].mTask = NULL) # (mCache'[j].mBuffer = NULL)
       /\ \A i \in 1..Len(mCache) : \A j \in 1..Len(mCache') :
             mCache[i].id = mCache'[j].id =>
                IF mCache[i].mTask = NULL
                THEN mCache'[j] = mCache[i]
                ELSE mCache'[j].mTask = NULL =>
                        /\ getSize \/ trim \/ getSizeIterate \/ getRoundRectReturn
                        /\ HasResult(mCache[i].mTask)
                        /\ mCache'[j].mBuffer = mCache[i].mTask
       /\ (getRoundRectReturn /\ fatal' = "none") =>
             LET i == IndexOfBuffer(mCache, pc.arg)
             IN  /\ mCache[i].mTask = NULL => ret' = mCache[i].mBuffer
                 /\ mCache[i].mTask # NULL => ret' = mCache[i].mTask
      ]_vars

\* getRoundRect is in getVertexBuffer on an entry an earlier accessor call
\* has already made Ready, while another task is still unresolved.
C13_Witness ==
    /\ pc.op = "getRoundRect" /\ fatal = "none"
    /\ IndexOfBuffer(mCache, pc.arg) # 0
    /\ mCache[IndexOfBuffer(mCache, pc.arg)].mTask = NULL
    /\ \E t \in 1..Len(tasks) : ~HasResult(t)

\* The Buffers of a cache, oldest first.
Ids(cache) == [i \in 1..Len(cache) |-> cache[i].id]

\* C14: eviction from the generic cache follows LRU order and is minimal.
\* A getOrCreateBuffer (alone or in getRoundRect) leaves the entry of its key
\* youngest and the other entries in their order; no other step but trim(),
\* clear(), setMaxSize() and the destructor changes the order; trim()
\* removes a prefix of that order, and removes an entry only while the
\* realized sizes of it and of everything younger sum to more than mMaxSize.
C14_LruEviction ==
    [][/\ trimReturn =>
             \E n \in 0..Len(mCache) :
                /\ mCache' = SubSeq(mCache, n + 1, Len(mCache))
                /\ n > 0 => SumSizes(SubSeq(mCache, n, Len(mCache))) > mMaxSize
       /\ \A k \in Keys :
             (/\ pc = Idle /\ lastOp'.key = k
              /\ \A t \in 1..Len(tasks) : tasks'[t] = tasks[t]
              /\ (\E ts \in Tessellators : getOrCreateBuffer(k, ts)) \/ getRoundRect(k)) =>
                /\ mCache' # <<>>
                /\ mCache'[Len(mCache')].key = k
                /\ Ids(RemoveAt(mCache', Len(mCache'))) =
                      Ids(IF IndexOf(mCache, k) # 0
                          THEN RemoveAt(mCache, IndexOf(mCache, k))
                          ELSE mCache)
       /\ Ids(mCache') # Ids(mCache) =>
             \/ trimReturn
             \/ clear
             \/ destructor
             \/ \E n \in Budgets : setMaxSize(n)
             \/ \E k \in Keys : getRoundRect(k)
             \/ \E k \in Keys : \E ts \in Tessellators : getOrCreateBuffer(k, ts)
      ]_vars

\* trim() has evicted an entry that was created after the entry it kept:
\* the kept entry was the more recently accessed one.
C14_Witness ==
    /\ lastOp.name = "trim" /\ pc = Idle
    /\ Len(mCache) = 1
    /\ \E t \in TessTasks :
          /\ t > mCache[1].id
          /\ tasks[t].key # mCache[1].key
          /\ tasks[t].freed = 1

\* The steps that leave the mesh a returning accessor hands out unreleased
\* and in its cache: at the return of getRoundRect or getShadowBuffers the
\* handle is the unreleased mesh of an entry of its cache.
ReturnedHandleLive ==
    /\ getRoundRectReturn /\ fatal' = "none" =>
          /\ tasks'[ret'].freed = 0
          /\ \E j \in 1..Len(mCache') : mCache'[j].mBuffer = ret'
    /\ getShadowBuffersReturn =>
          /\ ret' # NULL
          /\ tasks'[ret'].freed = 0
          /\ \E j \in 1..Len(mShadowCache') : mShadowCache'[j].task = ret'

\* A step takes an entry out of its cache or releases the mesh of an entry.
RemovesOrReleases ==
    \E t \in 1..Len(tasks) :
        InCache(t) /\ (~InCache(t)' \/ tasks'[t].freed # tasks[t].freed)

\* C18: only trim(), clear() and setMaxSize() remove entries. Every other
\* step leaves each entry of either cache in its cache and its mesh
\* unreleased, and the mesh getRoundRect or getShadowBuffers returns is, at
\* the return, the unreleased mesh of an entry of its cache.
C18_OnlyTrimClearRemove ==
    [][/\ RemovesOrReleases =>
             (trimReturn \/ clear \/ \E n \in Budgets : setMaxSize(n))
       /\ ReturnedHandleLive
      ]_vars

\* C18, amended: only trim(), clear(), setMaxSize() and the destructor of
\* the cache remove entries. Every other step leaves each entry of either
\* cache in its cache and its mesh unreleased, and the mesh getRoundRect or
\* getShadowBuffers returns is, at the return, the unreleased mesh of an
\* entry of its cache.
C18_RemovedByTrimClearOrDestructor ==
    [][/\ RemovesOrReleases =>
             (trimReturn \/ clear \/ destructor \/ \E n \in Budgets : setMaxSize(n))
       /\ ReturnedHandleLive
      ]_vars

\* getMaxSize() has returned with an entry in each of the two caches.
C18_Witness ==
    /\ lastOp.name = "getMaxSize" /\ pc = Idle
    /\ ret = mMaxSize
    /\ mCache # <<>>
    /\ mShadowCache # <<>>

\* C19: the eviction loop of trim() never reads the oldest entry of an empty
\* generic cache. At every test of the loop the running size is the sum of
\* the realized sizes of the entries still cached and is not negative, so a
\* size above mMaxSize means a non-empty cache; the loop ends after at most
\* one iteration per entry.
C19_TrimLoopSafe ==
    /\ fatal # "null dereference"
    /\ (pc.op = "trim" /\ fatal = "none" /\ iter = <<>>) =>
          LET states == TrimLoopStates(mCache, SumSizes(mCache))
          IN  /\ Len(states) <= Len(mCache) + 1
              /\ \A n \in 1..Len(states) :
                    /\ states[n].size = SumSizes(states[n].cache)
                    /\ states[n].size >= 0
                    /\ Above(states[n].size, mMaxSize) => states[n].cache # <<>>

\* trim() is about to run its loop on two materialized entries with a
\* budget of zero: the loop runs until the cache is empty.
C19_Witness ==
    /\ pc.op = "trim" /\ fatal = "none"
    /\ iter = <<>>
    /\ Len(mCache) = 2
    /\ mMaxSize = 0
    /\ SumSizes(mCache) > 0

\* C15: every task owns a snapshot of its inputs, taken at submission. The
\* snapshot of a new task is what the caller's memory holds at the call, no
\* later step (a teardown of the frame's memory least of all) changes it,
\* and what onProcess reads is that snapshot, whatever the caller's memory
\* holds when the task runs.
C15_TasksOwnSnapshot ==
    [][\A t \in 1..Len(tasks') :
          /\ t > Len(tasks) => (tasks'[t].snapshot = frame /\ tasks'[t].read = NULL)
          /\ t <= Len(tasks) =>
                /\ tasks'[t].snapshot = tasks[t].snapshot
                /\ tasks[t].read # NULL => tasks'[t].read = tasks[t].read
          /\ HasResult(t)' => tasks'[t].read = tasks'[t].snapshot
      ]_vars

\* A generic and a shadow task have run after the frame they were submitted
\* in was torn down.
C15_Witness ==
    /\ \E t \in TessTasks :
          HasResult(t) /\ tasks[t].ranIn # tasks[t].snapshot /\ tasks[t].read = tasks[t].snapshot
    /\ \E t \in ShadowTasks :
          HasResult(t) /\ tasks[t].ranIn # tasks[t].snapshot /\ tasks[t].read = tasks[t].snapshot
\* C16: when the flattened caster outline has no points the shadow task
\* still resolves, with a pair of two meshes of zero vertices, and
\* tessellateShadows does nothing after the outline and winding steps: no
\* point is lifted into 3d, no centroid, no Z correction, no bounds mapping,
\* no ambient or spot tessellation.
C16_EmptyOutline ==
    (sh.phase = "result" /\ Len(sh.in.casterVertices2d) = 0) =>
        /\ sh.result \in [first : {VertexBuffer}, second : {VertexBuffer}]
        /\ sh.result.first.vertexCount = 0
        /\ sh.result.second.vertexCount = 0
        /\ \A i \in 1..Len(sh.out.steps) :
              sh.out.steps[i] \in {"approximatePathOutlineVertices", "isClockwisePath"}

\* A shadow task whose outline is empty (and counter-clockwise, so the
\* reversal ran on the empty array) has resolved.
C16_Witness ==
    /\ sh.phase = "result"
    /\ Len(sh.in.casterVertices2d) = 0
    /\ ~sh.in.clockwise
    /\ sh.result = [first |-> VertexBuffer, second |-> VertexBuffer]

\* C17 as stated: when the minimum Z is below SHADOW_MIN_CASTER_Z every
\* vertex and the centroid rise in Z by constant - minimum Z, X and Y stay,
\* and the minimum vertex Z is then the constant; otherwise nothing changes.
C17_LiftExact ==
    (sh.phase = "result" /\ Len(sh.in.casterVertices2d) > 0) =>
        LET o == sh.out
            n == Len(o.mapped)
            delta == SHADOW_MIN_CASTER_Z - o.minZ
        IN  IF o.minZ < SHADOW_MIN_CASTER_Z
            THEN /\ \A i \in 1..n :
                       /\ o.ambient.casterPolygon[i].x = o.mapped[i].x
                       /\ o.ambient.casterPolygon[i].y = o.mapped[i].y
                       /\ o.ambient.casterPolygon[i].z - o.mapped[i].z = delta
                 /\ o.ambient.centroid3d.x = o.centroid.x
                 /\ o.ambient.centroid3d.y = o.centroid.y
                 /\ o.ambient.centroid3d.z - o.centroid.z = delta
                 /\ MinZ(o.ambient.casterPolygon, n) = SHADOW_MIN_CASTER_Z
            ELSE /\ o.ambient.casterPolygon = o.mapped
                 /\ o.ambient.centroid3d = o.centroid

\* C17, amended: when the minimum Z is below SHADOW_MIN_CASTER_Z every
\* vertex and the centroid get the same float addend, casterLift = the float
\* nearest to constant - minimum Z, each sum rounded to float; X and Y stay;
\* no Z goes down, the order of the Z's is kept, and the minimum vertex Z is
\* then the constant up to the two roundings: it is off by at most half a
\* unit in the last place of casterLift plus half a unit in the last place
\* of the new minimum itself. When the minimum Z is at or above the constant
\* nothing changes.
C17_LiftUpToRounding ==
    (sh.phase = "result" /\ Len(sh.in.casterVertices2d) > 0) =>
        LET o == sh.out
            n == Len(o.mapped)
            casterLift == RoundF(SHADOW_MIN_CASTER_Z - o.minZ)
            newMinZ == MinZ(o.ambient.casterPolygon, n)
        IN  IF o.minZ < SHADOW_MIN_CASTER_Z
            THEN /\ o.lifted
                 /\ \A i \in 1..n :
                       /\ o.ambient.casterPolygon[i].x = o.mapped[i].x
                       /\ o.ambient.casterPolygon[i].y = o.mapped[i].y
                       /\ o.ambient.casterPolygon[i].z = RoundF(o.mapped[i].z + casterLift)
                       /\ o.ambient.casterPolygon[i].z >= o.mapped[i].z
                       /\ \A j \in 1..n :
                             o.mapped[i].z <= o.mapped[j].z =>
                                o.ambient.casterPolygon[i].z <= o.ambient.casterPolygon[j].z
                 /\ o.ambient.centroid3d.x = o.centroid.x
                 /\ o.ambient.centroid3d.y = o.centroid.y
                 /\ o.ambient.centroid3d.z = RoundF(o.centroid.z + casterLift)
                 /\ newMinZ = RoundF(o.minZ + casterLift)
                 /\ 2 * Abs(newMinZ - SHADOW_MIN_CASTER_Z)
                       <= Ulp(Abs(casterLift)) + Ulp(Abs(newMinZ))
                 /\ o.spot.casterPolygon = o.ambient.casterPolygon
            ELSE /\ ~o.lifted
                 /\ o.ambient.casterPolygon = o.mapped
                 /\ o.ambient.centroid3d = o.centroid
                 /\ o.spot.casterPolygon = o.mapped

\* The caster was lifted from a minimum Z of -2^-34, where both roundings
\* are ties: the minimum Z is now a whole unit in the last place above the
\* constant, more than half a unit in the last place of casterLift; another
\* vertex has risen by something else than casterLift, and the centroid has
\* been lifted too.
C17_Witness ==
    /\ sh.phase = "result"
    /\ Len(sh.in.casterVertices2d) = 2
    /\ sh.out.lifted
    /\ 2 * Abs(MinZ(sh.out.ambient.casterPolygon, 2) - SHADOW_MIN_CASTER_Z)
          > Ulp(Abs(RoundF(SHADOW_MIN_CASTER_Z - sh.out.minZ)))
    /\ \E i \in 1..2 :
          sh.out.ambient.casterPolygon[i].z - sh.out.mapped[i].z
             # RoundF(SHADOW_MIN_CASTER_Z - sh.out.minZ)
    /\ sh.out.ambient.centroid3d.z > sh.out.centroid.z

\* C20: the maxZ handed to tessellateAmbientShadow is the maximum Z of the
\* caster polygon handed to it in the same call, lifted or not.
C20_MaxZOfPolygon ==
    (sh.phase = "result" /\ Len(sh.in.casterVertices2d) > 0) =>
        sh.out.ambient.maxZ =
            MaxZ(sh.out.ambient.casterPolygon, sh.out.ambient.casterVertexCount)
====
